---- MODULE Spec2Model ----
(***************************************************************************)
(* The dual-audio-to-email pipeline of the CRM backend:                    *)
(*   backend/services/audio_service/audio_service_minimal.py               *)
(*       AudioServiceMinimal.generate_email_from_dual_audio_direct         *)
(*       AudioServiceMinimal._ensure_mp3_format                            *)
(*       AudioServiceMinimal._update_database_for_mp3                      *)
(*   backend/services/audio_service/gemini_service.py                      *)
(*       GeminiService.generate_email_from_audio_files_direct              *)
(* modelled as a state machine over the two recording tables, the upload   *)
(* directory and one pipeline invocation at a time.                        *)
(***************************************************************************)
EXTENDS Naturals, Sequences, FiniteSets, TLC

(***************************************************************************)
(* Bounds of the model.                                                    *)
(***************************************************************************)
\* readiness-poll cycles counted and recorded in the history (the loop has no
\* ceiling in the code: it goes on after this many cycles, uncounted)
MaxPolls == 1

\* successful transcodes counted per Recording; the count stops there
MaxConversions == 2

\* calls of save_audio_file made
MaxSaves == 3

\* JWTs issued by the auth service
MaxTokens == 4

\* The UUIDs in play.  An invocation names two recording identifiers, so two
\* recording UUIDs give every combination of them; the requesting user is
\* Caller and every other owner is like user 2.
RecIds == {1, 2}
Users == {1, 2}
Caller == 1

(***************************************************************************)
(* Python values.  An identifier argument is either a uuid.UUID object or  *)
(* a str; a str is the hex text of a UUID in lower or upper case, or text  *)
(* that is no UUID at all (val = 0).                                       *)
(***************************************************************************)
UuidObj(v) == [py |-> "UUID", val |-> v, upper |-> FALSE]
StrLower(v) == [py |-> "str", val |-> v, upper |-> FALSE]
StrUpper(v) == [py |-> "str", val |-> v, upper |-> TRUE]
BadText == [py |-> "str", val |-> 0, upper |-> FALSE]

RecIdInputs == {UuidObj(v) : v \in RecIds} \cup {StrLower(v) : v \in RecIds}
                 \cup {StrUpper(v) : v \in RecIds} \cup {BadText}
\* main.py passes current_user.id, a UUID object
UserIdInputs == {UuidObj(Caller)}

\* isinstance(x, str)
IsStr(x) == x.py = "str"

\* uuid.UUID(text) raises ValueError for text that is no UUID; it accepts
\* upper-case hex
RaisesValueError(x) == IsStr(x) /\ x.val = 0

\* uuid_lib.UUID(x) if isinstance(x, str) else x : the UUID value
ToUuid(x) == x.val

\* str(x): a str is itself; a UUID prints as canonical lower-case hex
Str(x) == [val |-> x.val, upper |-> IF IsStr(x) THEN x.upper ELSE FALSE]

(***************************************************************************)
(* File paths: a stem and a suffix.  NonePath is Python's None.            *)
(***************************************************************************)
NonePath == [stem |-> 0, ext |-> "None"]
EmptyPath == [stem |-> 0, ext |-> ""]
MkPath(s, e) == [stem |-> s, ext |-> e]

\* file_path_obj.suffix.lower()
SuffixLower(p) ==
    CASE p.ext = "MP3" -> "mp3"
      [] p.ext = "WEBM" -> "webm"
      [] p.ext = "WAV" -> "wav"
      [] OTHER -> p.ext

\* if file_path_obj.suffix.lower() == '.mp3'
IsMp3(p) == SuffixLower(p) = "mp3"

\* if file_path_obj.suffix.lower() in ['.webm', '.wav', '.m4a', '.ogg']
IsConvertibleAlways(p) == TRUE
IsConvertible(p) == SuffixLower(p) \in {"webm", "wav", "m4a", "ogg"}

\* str(file_path_obj.with_suffix('.mp3'))
WithSuffixKept(p) == p
WithSuffixShared(p) == MkPath(1, "mp3")
WithSuffixMp3(p) == MkPath(p.stem, "mp3")

\* Path(mp3_path).name
BaseName(p) == <<p.stem, p.ext>>

\* `not file_path`
Falsy(p) == p = NonePath \/ p = EmptyPath

\* os.path.exists(file_path) against the directory contents d
FileExistsAlways(p, d) == TRUE
FileExistsNever(p, d) == FALSE
FileExists(p, d) == p \in d

(***************************************************************************)
(* The metadata store: the action_recordings and context_recordings        *)
(* tables, each a set of rows keyed by id.                                 *)
(***************************************************************************)
MkRow(i, u, p) ==
    [id |-> i, user_id |-> u, file_path |-> p, filename |-> BaseName(p),
     format |-> "audio/mp3"]

\* SELECT ... WHERE id IN (:relationship_id, :content_id) AND user_id = :user_id
FetchOwnedNoUserFilter(table, ids, user) == {r \in table : r.id \in ids}
FetchOwned(table, ids, user) == {r \in table : r.id \in ids /\ r.user_id = user}

\* SELECT id, user_id ... WHERE id IN (:relationship_id, :content_id)
FetchAnyOwner(table, ids) == {r \in table : r.id \in ids}

\* the orders in which fetch_all may return a set of rows (no ORDER BY)
RowOrders(S) ==
    {s \in [1..Cardinality(S) -> S] : \A i, j \in 1..Cardinality(S) : i # j => s[i] # s[j]}

\* UPDATE <table> SET file_path, filename, format ... WHERE id = :recording_id
UpdateRowsNoWhere(table, v, mp3_path) ==
    {[r EXCEPT !.file_path = mp3_path, !.filename = BaseName(mp3_path),
               !.format = "audio/mp3"] : r \in table}
UpdateRows(table, v, mp3_path) ==
    {IF r.id = v
       THEN [r EXCEPT !.file_path = mp3_path, !.filename = BaseName(mp3_path),
                      !.format = "audio/mp3"]
       ELSE r : r \in table}

\* rows affected by the UPDATE
RowCount(table, v) == Cardinality({r \in table : r.id = v})

(***************************************************************************)
(* _update_database_for_mp3(recording_id, mp3_path): the UPDATE of         *)
(* action_recordings, then, if `action_result == 0`, the UPDATE of         *)
(* context_recordings.  db is what database.execute does:                  *)
(*   "ok"     it returns the number of rows the UPDATE affected, which is  *)
(*            what the comparison of line 432 expects;                     *)
(*   "none"   it returns None, the value of a statement that yields no     *)
(*            row (the asyncpg backend of the `databases` package, the     *)
(*            one a postgresql:// URL selects, returns fetchval);          *)
(*   "fault"  it raises: logged and swallowed by lines 459-461.            *)
(* The result holds the tables afterwards, the writes made and whether an  *)
(* exception leaves the function.                                          *)
(***************************************************************************)
UpdateDatabaseForMp3Propagating(act, ctx, recording_id, mp3_path, db) ==
    IF db = "fault"
      THEN [action |-> act, context |-> ctx, ev |-> <<>>, raises |-> TRUE]
      ELSE [action |-> UpdateRows(act, ToUuid(recording_id), mp3_path),
            context |-> UpdateRows(ctx, ToUuid(recording_id), mp3_path),
            ev |-> <<"dbwrite">>, raises |-> FALSE]
UpdateDatabaseForMp3(act, ctx, recording_id, mp3_path, db) ==
    LET v == ToUuid(recording_id)
        wrote(table) == IF RowCount(table, v) # 0 THEN <<"dbwrite">> ELSE <<>>
    IN IF db = "fault"
         THEN [action |-> act, context |-> ctx, ev |-> <<>>, raises |-> FALSE]
       ELSE IF db = "none"
         THEN \* None == 0 is False: the else branch of line 456
              [action |-> UpdateRows(act, v, mp3_path), context |-> ctx,
               ev |-> wrote(act), raises |-> FALSE]
       ELSE IF RowCount(act, v) # 0
         THEN [action |-> UpdateRows(act, v, mp3_path), context |-> ctx,
               ev |-> <<"dbwrite">>, raises |-> FALSE]
       ELSE [action |-> act, context |-> UpdateRows(ctx, v, mp3_path),
             ev |-> wrote(ctx), raises |-> FALSE]

(***************************************************************************)
(* _ensure_mp3_format(file_path, recording_id).  fs is the upload          *)
(* directory: [files: the paths that exist, partial: those of them that    *)
(* are the incomplete output of a transcode that failed].  ff is what the  *)
(* ffmpeg run does: "ok", "error" (CalledProcessError, no output left),    *)
(* "error_partial" (CalledProcessError, incomplete output left at the      *)
(* target) or "absent" (FileNotFoundError).  The result holds the returned *)
(* path, the directory and tables afterwards and the side effects in order.*)
(***************************************************************************)
NoneId == [py |-> "None", val |-> 0, upper |-> FALSE]

\* `if recording_id:`
Truthy(x) == x.py # "None"

FfmpegOutcomes == {"ok", "error", "error_partial", "absent"}
DbOutcomes == {"ok", "none", "fault"}

\* lines 376-381: ffmpeg -y ran to its end and left the complete output at mp3_path
TranscodeNoOutput(fs, mp3_path) == fs
TranscodeOutput(fs, mp3_path) ==
    [files |-> fs.files \cup {mp3_path}, partial |-> fs.partial \ {mp3_path}]

Unchanged(file_path, fs, act, ctx, evs, raised) ==
    [ret |-> file_path, fs |-> fs, action |-> act, context |-> ctx, ev |-> evs,
     raises |-> raised]

EnsureMp3Format(file_path, recording_id, fs, act, ctx, ff, db) ==
    IF file_path = NonePath
      THEN \* Path(None) raises TypeError
           Unchanged(file_path, fs, act, ctx, <<>>, TRUE)
    ELSE IF IsMp3(file_path)
      THEN Unchanged(file_path, fs, act, ctx, <<>>, FALSE)
    ELSE IF IsConvertible(file_path)
      THEN LET mp3_path == WithSuffixMp3(file_path) IN
           IF FileExists(mp3_path, fs.files)
             THEN \* existing MP3 reused
                  IF Truthy(recording_id)
                    THEN LET u == UpdateDatabaseForMp3(act, ctx, recording_id, mp3_path, db)
                         IN [ret |-> mp3_path, fs |-> fs, action |-> u.action,
                             context |-> u.context, ev |-> u.ev, raises |-> u.raises]
                    ELSE Unchanged(mp3_path, fs, act, ctx, <<>>, FALSE)
           ELSE IF ff = "ok"
             THEN LET fs2 == TranscodeOutput(fs, mp3_path)
                  IN IF Truthy(recording_id)
                       THEN LET u == UpdateDatabaseForMp3(act, ctx, recording_id, mp3_path, db)
                            IN [ret |-> mp3_path, fs |-> fs2, action |-> u.action,
                                context |-> u.context, ev |-> <<"transcode">> \o u.ev,
                                raises |-> u.raises]
                       ELSE Unchanged(mp3_path, fs2, act, ctx, <<"transcode">>, FALSE)
           ELSE IF ff = "error_partial"
             THEN Unchanged(file_path,
                            [files |-> fs.files \cup {mp3_path},
                             partial |-> fs.partial \cup {mp3_path}],
                            act, ctx, <<"transcode">>, FALSE)
           ELSE IF ff = "error"
             THEN Unchanged(file_path, fs, act, ctx, <<"transcode">>, FALSE)
           ELSE \* FileNotFoundError: ffmpeg is not installed
                Unchanged(file_path, fs, act, ctx, <<>>, FALSE)
    ELSE Unchanged(file_path, fs, act, ctx, <<>>, FALSE)

(***************************************************************************)
(* State.                                                                  *)
(***************************************************************************)
VARIABLES
    action_recordings,          \* the action_recordings table
    context_recordings,         \* the context_recordings table
    fs,                         \* the upload directory
    pc,                         \* position of the invocation in the handler
    relationship_recording_id,  \* arguments of the invocation
    content_recording_id,
    user_id,
    recordings,                 \* list(action_recordings) + list(context_recordings)
    idx,                        \* position of `for recording in recordings`
    relationship_audio_path,
    content_audio_path,
    audio_file1,                \* state.name of the provider's file handles
    audio_file2,
    polls,                      \* readiness-poll cycles made
    email_result,               \* what the synthesizer returned
    exc,                        \* the exception in flight / delivered
    result,                     \* the dict returned to the caller
    events,                     \* history: the side effects of the invocation, in order
    pre,                        \* history: tables and directory when the call began
    n_file_path,                \* _ensure_mp3_format called on its own: its arguments
    n_recording_id,
    n_calls,                    \* and the calls made with them, see NormSpec
    conversions,                \* history: per Recording, the transcodes the handler
                                \* ran for it that ended successfully, all invocations
    saved,                      \* save_audio_file: the calls made, and of the last one
                                \* the arguments and what it returned or that it raised
    sent,                       \* history: the paths the invocation uploaded as
                                \* audio_file1 and audio_file2, and the contents of
                                \* its generation request
    auth                        \* AuthService: the tokens it has issued, the sessions
                                \* table, and its last call with the outcome

vars == <<action_recordings, context_recordings, fs, pc, relationship_recording_id,
          content_recording_id, user_id, recordings, idx, relationship_audio_path,
          content_audio_path, audio_file1, audio_file2, polls, email_result, exc,
          result, events, pre, n_file_path, n_recording_id, n_calls, conversions, saved,
          sent, auth>>

harness == <<n_file_path, n_recording_id, n_calls>>
store == <<action_recordings, context_recordings, fs>>
args == <<relationship_recording_id, content_recording_id, user_id>>
locals == <<recordings, idx, relationship_audio_path, content_audio_path>>
provider == <<audio_file1, audio_file2, polls, email_result>>

\* relationship_uuid, content_uuid, user_uuid of lines 176-178
relationship_uuid == ToUuid(relationship_recording_id)
content_uuid == ToUuid(content_recording_id)
user_uuid == ToUuid(user_id)

(***************************************************************************)
(* Exceptions.  kind names the message template of the raise statement:    *)
(*   InvalidUUID  "Invalid UUID format: ..."                               *)
(*   NotFound     "No recordings found with IDs ... and ..."               *)
(*   Ownership    "No recordings found for user ... Recordings exist but   *)
(*                 belong to different user(s): ..."                       *)
(*   Incomplete   "Missing {role} recording with ID: {id}"                 *)
(*   Ambiguous    "Expected 2 recordings, found {n}"                       *)
(*   NoPath       "Recording {id} has no file path in database"            *)
(*   MissingFile  "Audio file not found: {path} for recording {id}"        *)
(*   Unmappable   "Could not map recording IDs to file paths. ..."         *)
(*   StoreError   whatever database.fetch_all raised                       *)
(*   TypeError    Path(None)                                               *)
(* at is the statement that raised; wrapped tells that the message         *)
(* carries the prefix "Failed to process audio: " of line 333.             *)
(***************************************************************************)
NoExc == [kind |-> "none", role |-> "", id |-> NoneId, path |-> NonePath,
          at |-> "", wrapped |-> FALSE]
MkExc(k, r, i, p, a) == [kind |-> k, role |-> r, id |-> i, path |-> p,
                         at |-> a, wrapped |-> FALSE]

ResolverFaults == {"NotFound", "Ownership", "Incomplete", "Ambiguous", "MissingFile"}

NoResult == [email |-> "none", processing_method |-> "none"]

\* nothing uploaded, no generation request made
NoSent == [file1 |-> NonePath, file2 |-> NonePath, contents |-> <<>>]

NoPre == [action |-> {}, context |-> {}, fs |-> [files |-> {}, partial |-> {}]]

\* the auth service before any call: no token issued, no session
NoAuthCall == [op |-> "", token |-> <<>>, status |-> 0, detail |-> "", user |-> 0]
NoAuth == [issued |-> {}, sessions |-> {}, call |-> NoAuthCall]

\* no call of save_audio_file made yet
NoSave == [n |-> 0, filename |-> <<>>, user_id |-> 0, contact_id |-> 0, audio_type |-> "",
           raised |-> FALSE, returned |-> <<>>]

\* the two calls of _ensure_mp3_format followed on their own
Procs == {1, 2}

\* a call: where it stands, the path it returned, its side effects in order,
\* what its ffmpeg run and its database.execute did ("not_run": not reached),
\* and its two arguments
NoCall == [pc |-> "start", ret |-> NonePath, ev |-> <<>>, ff |-> "not_run", db |-> "not_run",
           file_path |-> NonePath, recording_id |-> NoneId]
CallOf(file_path, recording_id) ==
    [NoCall EXCEPT !.file_path = file_path, !.recording_id = recording_id]

(***************************************************************************)
(* Initial states: the tables and the directory as earlier uploads and     *)
(* conversions can have left them.  save_audio_file names every file with  *)
(* a fresh uuid4 and gives every row a fresh uuid4 id, so no id is in both *)
(* tables and no two rows share a file stem; the stored path is .mp3, or   *)
(* the upload's own suffix when ffmpeg failed at upload time; the file may *)
(* have been removed from the directory since, and a .webm upload may      *)
(* already have its .mp3 sibling.                                          *)
(***************************************************************************)
StoredExts == {"mp3", "webm"}

RecStates ==
    {[tbl |-> "none", owner |-> 1, ext |-> "mp3", onDisk |-> FALSE, sibling |-> FALSE]}
    \cup {s \in [tbl : {"action", "context"}, owner : Users, ext : StoredExts,
                 onDisk : BOOLEAN, sibling : BOOLEAN] :
            s.ext = "mp3" => ~s.sibling}

TableOf(st, t) == {MkRow(i, st[i].owner, MkPath(i, st[i].ext)) : i \in {j \in RecIds : st[j].tbl = t}}

FilesOf(st) ==
    {MkPath(i, st[i].ext) : i \in {j \in RecIds : st[j].tbl # "none" /\ st[j].onDisk}}
    \cup {MkPath(i, "mp3") : i \in {j \in RecIds : st[j].tbl # "none" /\ st[j].sibling}}

\* no invocation of the handler is in progress
Idle ==
    /\ pc = "idle"
    /\ relationship_recording_id = NoneId
    /\ content_recording_id = NoneId
    /\ user_id = NoneId
    /\ recordings = <<>>
    /\ idx = 0
    /\ relationship_audio_path = NonePath
    /\ content_audio_path = NonePath
    /\ audio_file1 = "none"
    /\ audio_file2 = "none"
    /\ polls = 0
    /\ email_result = "none"
    /\ exc = NoExc
    /\ result = NoResult
    /\ events = <<>>
    /\ sent = NoSent

Init ==
    /\ \E st \in [RecIds -> RecStates] :
         /\ action_recordings = TableOf(st, "action")
         /\ context_recordings = TableOf(st, "context")
         /\ fs = [files |-> FilesOf(st), partial |-> {}]
    /\ Idle
    /\ pre = NoPre
    /\ n_file_path = NonePath
    /\ n_recording_id = NoneId
    /\ n_calls = [p \in Procs |-> NoCall]
    /\ conversions = [i \in RecIds |-> 0]
    /\ saved = NoSave
    /\ auth = NoAuth

(***************************************************************************)
(* generate_email_from_dual_audio_direct, statement by statement.          *)
(***************************************************************************)
\* line 333: raise Exception(f"Failed to process audio: {str(e)}")
WrapReraise(e) == e
Wrap(e) == [e EXCEPT !.wrapped = TRUE]

\* a raise statement inside the try block of line 169: the handler of lines
\* 332-333 catches the exception and raises its own to the caller
Raise(e) ==
    /\ exc' = Wrap(e)
    /\ pc' = "failed"

\* the straight-line part of the handler after the resolve step, lines 305-330
PipelineUploadFirst == <<"norm_rel", "upload1", "norm_con", "upload2", "poll", "check",
                         "generate", "package">>
Pipeline == <<"norm_rel", "norm_con", "upload1", "upload2", "poll", "check",
              "generate", "package">>

After(step) ==
    LET i == CHOOSE k \in 1..Len(Pipeline) : Pipeline[k] = step
    IN IF i < Len(Pipeline) THEN Pipeline[i + 1] ELSE "done"

\* a request arrives
Call(rel, con, usr) ==
    /\ pc = "idle"
    /\ relationship_recording_id' = rel
    /\ content_recording_id' = con
    /\ user_id' = usr
    /\ pre' = [action |-> action_recordings, context |-> context_recordings, fs |-> fs]
    /\ events' = <<>>
    /\ pc' = "query"
    /\ UNCHANGED <<auth, conversions, saved, sent, harness, store, locals, provider, exc, result>>

\* lines 175-180
InvalidUuidFormat ==
    \/ RaisesValueError(relationship_recording_id)
    \/ RaisesValueError(content_recording_id)
    \/ RaisesValueError(user_id)

\* lines 175-180, a ValueError
ParseFault ==
    /\ pc = "query"
    /\ InvalidUuidFormat
    /\ Raise(MkExc("InvalidUUID", "", NoneId, NonePath, "query"))
    /\ UNCHANGED <<auth, conversions, saved, sent, harness, store, args, locals, provider, result, events, pre>>

\* lines 175-207, the store answering
QueryRecordings ==
    /\ pc = "query"
    /\ ~InvalidUuidFormat
    /\ \E a \in RowOrders(FetchOwned(action_recordings,
                                     {relationship_uuid, content_uuid}, user_uuid)),
          c \in RowOrders(FetchOwned(context_recordings,
                                     {relationship_uuid, content_uuid}, user_uuid)) :
         recordings' = a \o c
    /\ events' = events \o <<"fetch", "fetch">>
    /\ pc' = "count"
    /\ UNCHANGED <<auth, conversions, saved, sent, harness, store, args, idx, relationship_audio_path, content_audio_path,
                   provider, exc, result, pre>>

\* lines 194-204, database.fetch_all raising
QueryFault ==
    /\ pc = "query"
    /\ ~InvalidUuidFormat
    /\ events' = events \o <<"fetch">>
    /\ Raise(MkExc("StoreError", "", NoneId, NonePath, "query"))
    /\ UNCHANGED <<auth, conversions, saved, sent, harness, store, args, locals, provider, result, pre>>

\* lines 236-241
ZeroFoundFaultInverted(debug_recordings) ==
    IF debug_recordings = {}
      THEN MkExc("Ownership", "", NoneId, NonePath, "count")
      ELSE MkExc("NotFound", "", NoneId, NonePath, "count")
ZeroFoundFault(debug_recordings) ==
    IF debug_recordings # {}
      THEN MkExc("Ownership", "", NoneId, NonePath, "count")
      ELSE MkExc("NotFound", "", NoneId, NonePath, "count")

\* lines 244-250
IncompleteFault ==
    LET found_id_str == Str(UuidObj(recordings[1].id))
        relationship_id_str == Str(relationship_recording_id)
        missing_id == IF found_id_str = relationship_id_str
                        THEN content_recording_id ELSE relationship_recording_id
        missing_type == IF found_id_str = relationship_id_str
                          THEN "content" ELSE "relationship"
    IN MkExc("Incomplete", missing_type, missing_id, NonePath, "count")

\* lines 213-253
CountRecordings ==
    /\ pc = "count"
    /\ IF Len(recordings) = 0
         THEN /\ Raise(ZeroFoundFault(
                    FetchAnyOwner(action_recordings, {relationship_uuid, content_uuid})
                    \cup FetchAnyOwner(context_recordings, {relationship_uuid, content_uuid})))
              /\ events' = events \o <<"fetch", "fetch">>
              /\ UNCHANGED idx
         ELSE IF Len(recordings) = 1
           THEN Raise(IncompleteFault) /\ UNCHANGED <<idx, events>>
         ELSE IF Len(recordings) # 2
           THEN /\ Raise(MkExc("Ambiguous", "", NoneId, NonePath, "count"))
                /\ UNCHANGED <<idx, events>>
         ELSE /\ pc' = "loop"
              /\ idx' = 1
              /\ UNCHANGED <<exc, events>>
    /\ UNCHANGED <<auth, conversions, saved, sent, harness, store, args, recordings, relationship_audio_path, content_audio_path,
                   provider, result, pre>>

\* line 276
MissingFileFaultFirstRow(file_path, rec_id) ==
    MkExc("MissingFile", "", UuidObj(recordings[1].id), recordings[1].file_path, "loop")
MissingFileFault(file_path, rec_id) ==
    MkExc("MissingFile", "", UuidObj(rec_id), file_path, "loop")

\* lines 259-296, one iteration of `for recording in recordings`
LoopRecording ==
    /\ pc = "loop"
    /\ LET recording == recordings[idx]
           rec_id == recording.id
           file_path == recording.file_path
           rec_id_str == Str(UuidObj(rec_id))
           relationship_id_str == Str(relationship_recording_id)
           content_id_str == Str(content_recording_id)
       IN IF Falsy(file_path)
            THEN /\ Raise(MkExc("NoPath", "", UuidObj(rec_id), file_path, "loop"))
                 /\ UNCHANGED <<idx, relationship_audio_path, content_audio_path, events>>
          ELSE IF ~FileExists(file_path, fs.files)
            THEN /\ Raise(MissingFileFault(file_path, rec_id))
                 /\ events' = events \o <<"exists">>
                 /\ UNCHANGED <<idx, relationship_audio_path, content_audio_path>>
          ELSE /\ events' = events \o <<"exists">>
               /\ relationship_audio_path' =
                      IF rec_id_str = relationship_id_str
                        THEN file_path ELSE relationship_audio_path
               /\ content_audio_path' =
                      IF rec_id_str # relationship_id_str /\ rec_id_str = content_id_str
                        THEN file_path ELSE content_audio_path
               /\ idx' = idx + 1
               /\ pc' = IF idx = Len(recordings) THEN "mapcheck" ELSE "loop"
               /\ UNCHANGED exc
    /\ UNCHANGED <<auth, conversions, saved, sent, harness, store, args, recordings, provider, result, pre>>

\* line 302: `not relationship_audio_path or not content_audio_path`
UnmappedBoth(rel_path, con_path) == Falsy(rel_path) /\ Falsy(con_path)
Unmapped(rel_path, con_path) == Falsy(rel_path) \/ Falsy(con_path)

\* lines 302-303
CheckMapping ==
    /\ pc = "mapcheck"
    /\ IF Unmapped(relationship_audio_path, content_audio_path)
         THEN Raise(MkExc("Unmappable", "", NoneId, NonePath, "mapcheck"))
         ELSE pc' = Pipeline[1] /\ UNCHANGED exc
    /\ UNCHANGED <<auth, conversions, saved, sent, harness, store, args, locals, provider, result, events, pre>>

\* lines 344-362: the call gets as far as running ffmpeg
ReachesTranscoder(path, dir) ==
    ~IsMp3(path) /\ IsConvertible(path) /\ ~FileExists(WithSuffixMp3(path), dir.files)

\* line 307 or 308: one call of _ensure_mp3_format and the assignment of its result
Normalize(file_path, recording_id, step) ==
    \E ff \in FfmpegOutcomes, db \in DbOutcomes :
      LET r == EnsureMp3Format(file_path, recording_id, fs, action_recordings,
                               context_recordings, ff, db)
      IN /\ fs' = r.fs
         /\ action_recordings' = r.action
         /\ context_recordings' = r.context
         /\ events' = events \o <<"norm_call">> \o r.ev \o <<"norm_return">>
         /\ conversions' = IF ReachesTranscoder(file_path, fs) /\ ff = "ok"
                                 /\ file_path.stem \in RecIds
                              THEN [conversions EXCEPT ![file_path.stem] =
                                      IF @ < MaxConversions THEN @ + 1 ELSE @]
                              ELSE conversions
         /\ IF r.raises
              THEN /\ Raise(MkExc("TypeError", "", NoneId, NonePath, step))
                   /\ UNCHANGED <<relationship_audio_path, content_audio_path>>
              ELSE /\ pc' = After(step)
                   /\ UNCHANGED exc
                   /\ IF step = "norm_rel"
                        THEN /\ relationship_audio_path' = r.ret
                             /\ UNCHANGED content_audio_path
                        ELSE /\ content_audio_path' = r.ret
                             /\ UNCHANGED relationship_audio_path

\* line 307
NormalizeRelationship ==
    /\ pc = "norm_rel"
    /\ Normalize(relationship_audio_path, relationship_recording_id, "norm_rel")
    /\ UNCHANGED <<auth, saved, sent, harness, args, recordings, idx, provider, result, pre>>

\* line 308
NormalizeContent ==
    /\ pc = "norm_con"
    /\ Normalize(content_audio_path, content_recording_id, "norm_con")
    /\ UNCHANGED <<auth, saved, sent, harness, args, recordings, idx, provider, result, pre>>

(***************************************************************************)
(* GeminiService.generate_email_from_audio_files_direct, run by line 317.  *)
(* email_result is the text it returns:                                    *)
(*   "generated"      response.text                            (line 150)  *)
(*   "err_file1"      "Error: Audio file 1 could not be ..."   (line 122)  *)
(*   "err_file2"      "Error: Audio file 2 could not be ..."   (line 126)  *)
(*   "err_api"        "Error: Gemini API failed to ..."        (line 137)  *)
(*   "err_exception"  "Error generating email: ..."            (line 154)  *)
(***************************************************************************)
UploadStates == {"PROCESSING", "ACTIVE", "FAILED"}

\* what genai.get_file can report for a handle last seen in state s
Refreshed(s) == IF s = "PROCESSING" THEN UploadStates ELSE {s}

\* a return statement of the synthesizer: line 317 resumes, line 326 follows
SynthReturnsOrFails(text) ==
    /\ email_result' = text
    /\ audio_file1' = "none"
    /\ audio_file2' = "none"
    /\ polls' = 0
    /\ pc' = IF text = "err_exception" THEN "failed" ELSE "package"
SynthReturns(text) ==
    /\ email_result' = text
    /\ audio_file1' = "none"
    /\ audio_file2' = "none"
    /\ polls' = 0
    /\ pc' = "package"

\* lines 317-324: the keyword arguments of generate_email_from_audio_files_direct
SynthArgsSwapped(rel_path, con_path) ==
    [relationship_audio_path |-> con_path, content_audio_path |-> rel_path]
SynthArgs(rel_path, con_path) ==
    [relationship_audio_path |-> rel_path, content_audio_path |-> con_path]

\* line 130: the list given to generate_content
GenerateContents(f1, f2) == <<"prompt", f1, f2>>

\* lines 53-54, genai.upload_file(path=relationship_audio_path)
UploadRelationship ==
    /\ pc = "upload1"
    /\ \/ /\ \E st \in UploadStates : audio_file1' = st
          /\ sent' = [sent EXCEPT !.file1 =
                         SynthArgs(relationship_audio_path,
                                   content_audio_path).relationship_audio_path]
          /\ events' = events \o <<"upload">>
          /\ pc' = After("upload1")
          /\ UNCHANGED <<audio_file2, polls, email_result>>
       \/ /\ SynthReturns("err_exception")
          /\ events' = events \o <<"upload", "synth_return">>
          /\ UNCHANGED sent
    /\ UNCHANGED <<auth, conversions, saved, harness, store, args, locals, exc, result, pre>>

\* lines 56-57, genai.upload_file(path=content_audio_path)
UploadContent ==
    /\ pc = "upload2"
    /\ \/ /\ \E st \in UploadStates : audio_file2' = st
          /\ sent' = [sent EXCEPT !.file2 =
                         SynthArgs(relationship_audio_path,
                                   content_audio_path).content_audio_path]
          /\ events' = events \o <<"upload">>
          /\ pc' = After("upload2")
          /\ UNCHANGED <<audio_file1, polls, email_result>>
       \/ /\ SynthReturns("err_exception")
          /\ events' = events \o <<"upload", "synth_return">>
          /\ UNCHANGED sent
    /\ UNCHANGED <<auth, conversions, saved, harness, store, args, locals, exc, result, pre>>

\* line 61: the condition of the while loop
StillNotActive(f1, f2) == f1 # "ACTIVE" \/ f2 # "ACTIVE"
StillBothProcessing(f1, f2) == f1 = "PROCESSING" /\ f2 = "PROCESSING"
StillProcessing(f1, f2) == f1 = "PROCESSING" \/ f2 = "PROCESSING"

\* line 61: one evaluation of the condition of the while loop
PollReadiness ==
    /\ pc = "poll"
    /\ pc' = IF StillProcessing(audio_file1, audio_file2) THEN "sleep" ELSE After("poll")
    /\ UNCHANGED <<auth, conversions, saved, sent, harness, store, args, locals, provider, exc, result, events, pre>>

\* lines 62-66: time.sleep(10) and the two genai.get_file calls of one cycle
RefreshFiles ==
    /\ pc = "sleep"
    /\ \/ /\ \E s1 \in Refreshed(audio_file1), s2 \in Refreshed(audio_file2) :
               audio_file1' = s1 /\ audio_file2' = s2
          /\ polls' = IF polls < MaxPolls THEN polls + 1 ELSE polls
          /\ events' = IF polls < MaxPolls
                         THEN events \o <<"get_file", "get_file">> ELSE events
          /\ pc' = "poll"
          /\ UNCHANGED email_result
       \/ /\ SynthReturns("err_exception")
          /\ events' = events \o <<"get_file", "synth_return">>
    /\ UNCHANGED <<auth, conversions, saved, sent, harness, store, args, locals, exc, result, pre>>

\* lines 120 and 124: audio_file.state.name != "ACTIVE", negated
IsActiveOrFailed(f) == f # "PROCESSING"
IsActive(f) == f = "ACTIVE"

\* lines 119-126
CheckActive ==
    /\ pc = "check"
    /\ IF ~IsActive(audio_file1)
         THEN SynthReturns("err_file1") /\ events' = events \o <<"synth_return">>
         ELSE IF ~IsActive(audio_file2)
           THEN SynthReturns("err_file2") /\ events' = events \o <<"synth_return">>
           ELSE pc' = After("check") /\ UNCHANGED <<provider, events>>
    /\ UNCHANGED <<auth, conversions, saved, sent, harness, store, args, locals, exc, result, pre>>

\* lines 128-150
GenerateContent ==
    /\ pc = "generate"
    /\ \E text \in {"generated", "err_api"} : SynthReturns(text)
    /\ sent' = [sent EXCEPT !.contents = GenerateContents(sent.file1, sent.file2)]
    /\ events' = events \o <<"generate", "synth_return">>
    /\ UNCHANGED <<auth, conversions, saved, harness, store, args, locals, exc, result, pre>>

\* lines 326-330
Package ==
    /\ pc = "package"
    /\ result' = [email |-> email_result, processing_method |-> "direct_audio_to_gemini"]
    /\ events' = events \o <<"package">>
    /\ pc' = "done"
    /\ UNCHANGED <<auth, conversions, saved, sent, harness, store, args, locals, provider, exc, pre>>

\* the invocation is over; the service keeps no state of it
Finish ==
    /\ pc \in {"done", "failed"}
    /\ pc' = "idle"
    /\ relationship_recording_id' = NoneId
    /\ content_recording_id' = NoneId
    /\ user_id' = NoneId
    /\ recordings' = <<>>
    /\ idx' = 0
    /\ relationship_audio_path' = NonePath
    /\ content_audio_path' = NonePath
    /\ audio_file1' = "none"
    /\ audio_file2' = "none"
    /\ polls' = 0
    /\ email_result' = "none"
    /\ exc' = NoExc
    /\ result' = NoResult
    /\ events' = <<>>
    /\ pre' = NoPre
    /\ sent' = NoSent
    /\ UNCHANGED <<auth, conversions, saved, harness, store>>

Invoke == \E rel \in RecIdInputs, con \in RecIdInputs, usr \in UserIdInputs : Call(rel, con, usr)

Next ==
    \/ Invoke
    \/ ParseFault
    \/ QueryRecordings
    \/ QueryFault
    \/ CountRecordings
    \/ LoopRecording
    \/ CheckMapping
    \/ NormalizeRelationship
    \/ NormalizeContent
    \/ UploadRelationship
    \/ UploadContent
    \/ PollReadiness
    \/ RefreshFiles
    \/ CheckActive
    \/ GenerateContent
    \/ Package
    \/ Finish

Spec == Init /\ [][Next]_vars

(***************************************************************************)
(* One deployment followed to the end of its invocations: a .webm          *)
(* Recording in the action table and an .mp3 Recording in the context      *)
(* table, both of the caller, both on disk.  The handler is a sequential   *)
(* task that the event loop keeps running, so a statement that can run     *)
(* does run; what the provider and the tools answer stays a free choice.   *)
(***************************************************************************)
LiveInit ==
    /\ Init
    /\ action_recordings = {MkRow(1, Caller, MkPath(1, "webm"))}
    /\ context_recordings = {MkRow(2, Caller, MkPath(2, "mp3"))}
    /\ fs.files = {MkPath(1, "webm"), MkPath(2, "mp3")}

Step ==
    \/ ParseFault \/ QueryRecordings \/ QueryFault \/ CountRecordings \/ LoopRecording
    \/ CheckMapping \/ NormalizeRelationship \/ NormalizeContent \/ UploadRelationship
    \/ UploadContent \/ PollReadiness \/ RefreshFiles \/ CheckActive \/ GenerateContent
    \/ Package

LiveSpec == LiveInit /\ [][Next]_vars /\ WF_vars(Step)

(***************************************************************************)
(* _ensure_mp3_format called on its own, twice in a row with the same      *)
(* arguments: on a path of Recording 1's upload, with the Recording's id   *)
(* (lines 307-308) or without one (line 49).  Callers pass a str, never    *)
(* None.  The tables hold the Recording in the action table, in the        *)
(* context table or not at all, stored under the path given or under its   *)
(* .mp3 sibling; the directory holds any of the two files, the sibling     *)
(* possibly as the incomplete output of an earlier failed transcode.       *)
(***************************************************************************)
orch == <<pc, relationship_recording_id, content_recording_id, user_id, recordings, idx,
          relationship_audio_path, content_audio_path, audio_file1, audio_file2, polls,
          email_result, exc, result, events, sent>>

NormExts == {"mp3", "MP3", "webm", "WEBM", "wav", "txt", ""}
NormPaths == {MkPath(1, e) : e \in NormExts}
NormIds == {NoneId, UuidObj(1), StrLower(1)}

NormTables(path) ==
    {[action |-> {}, context |-> {}]}
    \cup {[action |-> {MkRow(1, Caller, q)}, context |-> {}] : q \in {path, MkPath(1, "mp3")}}
    \cup {[action |-> {}, context |-> {MkRow(1, Caller, q)}] : q \in {path, MkPath(1, "mp3")}}

NormDirs(path) ==
    {d \in [files : SUBSET {path, MkPath(1, "mp3")}, partial : SUBSET {MkPath(1, "mp3")}] :
        d.partial \subseteq d.files \ {path}}

NormInit ==
    /\ Idle
    /\ \E path \in NormPaths, id \in NormIds :
         /\ n_file_path = path
         /\ n_recording_id = id
         /\ \E t \in NormTables(path), d \in NormDirs(path) :
              /\ action_recordings = t.action
              /\ context_recordings = t.context
              /\ fs = d
              /\ pre = [action |-> t.action, context |-> t.context, fs |-> d]
    /\ n_calls = [p \in Procs |-> CallOf(n_file_path, n_recording_id)]
    /\ conversions = [i \in RecIds |-> 0]
    /\ saved = NoSave
    /\ auth = NoAuth

\* one whole call of _ensure_mp3_format; the second starts when the first has returned
NormCall(p) ==
    /\ n_calls[p].pc = "start"
    /\ p = 2 => n_calls[1].pc = "returned"
    /\ \E ff \in FfmpegOutcomes, db \in DbOutcomes :
         LET r == EnsureMp3Format(n_file_path, n_recording_id, fs, action_recordings,
                                  context_recordings, ff, db)
             ran == ReachesTranscoder(n_file_path, fs)
             updated == Truthy(n_recording_id) /\ r.ret # n_file_path
         IN /\ fs' = r.fs
            /\ action_recordings' = r.action
            /\ context_recordings' = r.context
            /\ n_calls' = [n_calls EXCEPT ![p] =
                  [@ EXCEPT !.pc = IF r.raises THEN "raised" ELSE "returned",
                            !.ret = r.ret, !.ev = r.ev,
                            !.ff = IF ran THEN ff ELSE "not_run",
                            !.db = IF updated THEN db ELSE "not_run"]]
    /\ UNCHANGED <<auth, conversions, saved, orch, pre, n_file_path, n_recording_id>>

NormNext == \E p \in Procs : NormCall(p)

NormSpec == NormInit /\ [][NormNext]_vars

(***************************************************************************)
(* Two calls of _ensure_mp3_format with the same arguments running at the  *)
(* same time (two requests, or two workers), statement by statement.       *)
(* Nothing excludes one from the other: any statement of one may run       *)
(* between two statements of the other.  A running ffmpeg has created its  *)
(* output file, which stays incomplete until the last ffmpeg writing it    *)
(* has ended.                                                              *)
(***************************************************************************)
At(p, step) == n_calls[p].pc = step
FilePath(p) == n_calls[p].file_path
RecordingId(p) == n_calls[p].recording_id

Goto(p, step, ret, evs, ff, db) ==
    n_calls' = [n_calls EXCEPT ![p] = [@ EXCEPT !.pc = step, !.ret = ret,
                                                 !.ev = @ \o evs, !.ff = ff, !.db = db]]

\* a return statement of the call
Return(p, ret, evs, ff, db) == Goto(p, "returned", ret, evs, ff, db)

\* lines 357-360 and 386-389: `if recording_id:` before `return mp3_path`
ThenUpdate(p, mp3_path, evs, ff) ==
    IF Truthy(RecordingId(p))
      THEN Goto(p, "update", mp3_path, evs, ff, n_calls[p].db)
      ELSE Return(p, mp3_path, evs, ff, n_calls[p].db)

\* lines 341-350: the two suffix tests
ConcSuffix(p) ==
    /\ At(p, "start")
    /\ IF ~IsMp3(FilePath(p)) /\ IsConvertible(FilePath(p))
         THEN Goto(p, "exists", NonePath, <<>>, "not_run", "not_run")
         ELSE Return(p, FilePath(p), <<>>, "not_run", "not_run")
    /\ UNCHANGED <<auth, conversions, saved, orch, store, pre, n_file_path, n_recording_id>>

\* line 353: Path(mp3_path).exists()
ConcExists(p) ==
    /\ At(p, "exists")
    /\ IF FileExists(WithSuffixMp3(FilePath(p)), fs.files)
         THEN ThenUpdate(p, WithSuffixMp3(FilePath(p)), <<>>, "not_run")
         ELSE Goto(p, "run", NonePath, <<>>, "not_run", "not_run")
    /\ UNCHANGED <<auth, conversions, saved, orch, store, pre, n_file_path, n_recording_id>>

\* line 376: subprocess.run starts ffmpeg, or finds no ffmpeg to start
ConcRun(p) ==
    /\ At(p, "run")
    /\ \E ff \in FfmpegOutcomes :
         IF ff = "absent"
           THEN Return(p, FilePath(p), <<>>, ff, "not_run") /\ UNCHANGED fs
           ELSE /\ Goto(p, "running", NonePath, <<"transcode">>, ff, "not_run")
                /\ fs' = IF ff = "error"
                            THEN fs
                            ELSE [files |-> fs.files \cup {WithSuffixMp3(FilePath(p))},
                                  partial |-> fs.partial \cup {WithSuffixMp3(FilePath(p))}]
    /\ UNCHANGED <<auth, conversions, saved, orch, action_recordings, context_recordings, pre, n_file_path,
                   n_recording_id>>

\* lines 376-397: ffmpeg ends, subprocess.run returns or raises CalledProcessError
ConcRunEnd(p) ==
    /\ At(p, "running")
    /\ LET mp3_path == WithSuffixMp3(FilePath(p))
           writing == \E q \in Procs \ {p} :
                         /\ At(q, "running") /\ n_calls[q].ff \in {"ok", "error_partial"}
                         /\ WithSuffixMp3(FilePath(q)) = mp3_path
       IN IF n_calls[p].ff = "ok"
            THEN /\ ThenUpdate(p, mp3_path, <<>>, "ok")
                 /\ fs' = [files |-> fs.files \cup {mp3_path},
                           partial |-> IF writing THEN fs.partial \cup {mp3_path}
                                                  ELSE fs.partial \ {mp3_path}]
            ELSE /\ Return(p, FilePath(p), <<>>, n_calls[p].ff, "not_run")
                 /\ UNCHANGED fs
    /\ UNCHANGED <<auth, conversions, saved, orch, action_recordings, context_recordings, pre, n_file_path,
                   n_recording_id>>

\* lines 413-432 and 456-461: the UPDATE of action_recordings
ConcUpdateAction(p) ==
    /\ At(p, "update")
    /\ LET c == n_calls[p]
           v == ToUuid(RecordingId(p))
           wrote == IF RowCount(action_recordings, v) # 0 THEN <<"dbwrite">> ELSE <<>>
       IN \E db \in DbOutcomes :
            IF db = "fault"
              THEN Return(p, c.ret, <<>>, c.ff, db) /\ UNCHANGED action_recordings
              ELSE /\ action_recordings' = UpdateRows(action_recordings, v, c.ret)
                   /\ IF db = "ok" /\ RowCount(action_recordings, v) = 0
                        THEN Goto(p, "update_ctx", c.ret, wrote, c.ff, db)
                        ELSE Return(p, c.ret, wrote, c.ff, db)
    /\ UNCHANGED <<auth, conversions, saved, orch, context_recordings, fs, pre, n_file_path, n_recording_id>>

\* lines 433-455 and 459-461: the UPDATE of context_recordings
ConcUpdateContext(p) ==
    /\ At(p, "update_ctx")
    /\ LET c == n_calls[p]
           v == ToUuid(RecordingId(p))
           wrote == IF RowCount(context_recordings, v) # 0 THEN <<"dbwrite">> ELSE <<>>
       IN \* the driver that returned a row count at line 423 returns one here
          \E db \in DbOutcomes \ {"none"} :
            IF db = "fault"
              THEN Return(p, c.ret, <<>>, c.ff, db) /\ UNCHANGED context_recordings
              ELSE /\ context_recordings' = UpdateRows(context_recordings, v, c.ret)
                   /\ Return(p, c.ret, wrote, c.ff, db)
    /\ UNCHANGED <<auth, conversions, saved, orch, action_recordings, fs, pre, n_file_path, n_recording_id>>

ConcNext ==
    \E p \in Procs :
        \/ ConcSuffix(p)
        \/ ConcExists(p)
        \/ ConcRun(p)
        \/ ConcRunEnd(p)
        \/ ConcUpdateAction(p)
        \/ ConcUpdateContext(p)

ConcSpec == NormInit /\ [][ConcNext]_vars

(***************************************************************************)
(* save_audio_file(audio_file, user_id, title, contact_id, audio_type),    *)
(* one call after another on an upload directory and tables that start     *)
(* empty.  A file name is the sequence of its parts between dots.  Call n  *)
(* draws the uuid4 that names its file and the uuid4 that is the id of its *)
(* row: both are n here.  created_at is NOW() of the INSERT: n as well.    *)
(* contact_id None is 0.  A row carries, beside the columns the handler    *)
(* reads back, contact_id and created_at, and in context_recordings        *)
(* action_recording_id.                                                    *)
(***************************************************************************)
ContactNone == 0

\* line 37: filename.split('.')[-1] if '.' in filename else 'webm'
FileExtension(filename) ==
    IF Len(filename) > 1 THEN filename[Len(filename)] ELSE "webm"

\* lines 83-93: the row of the INSERT INTO action_recordings
ActionRow(n, user, contact, mp3_file_path) ==
    MkRow(n, user, mp3_file_path) @@ [contact_id |-> contact, created_at |-> n]

\* lines 129-140: the row of the INSERT INTO context_recordings
ContextRow(n, user, contact, action_recording_id, mp3_file_path) ==
    ActionRow(n, user, contact, mp3_file_path)
       @@ [action_recording_id |-> action_recording_id]

\* lines 102-111: SELECT id FROM action_recordings WHERE user_id = :user_id AND
\* contact_id = :contact_id ORDER BY created_at DESC LIMIT 1; the set is empty
\* when fetch_one returns None
OldestAction(table, user, contact) ==
    LET found == {a \in table : a.user_id = user /\ a.contact_id = contact}
    IN {a \in found : \A b \in found : b.created_at >= a.created_at}
LatestAction(table, user, contact) ==
    LET found == {a \in table : a.user_id = user /\ a.contact_id = contact}
    IN {a \in found : \A b \in found : b.created_at <= a.created_at}

\* lines 144-153
SaveResult(n, mp3_file_path) ==
    <<[recording_id |-> n, filename |-> BaseName(mp3_file_path),
       file_path |-> mp3_file_path, status |-> "uploaded", format |-> "audio/mp3"]>>

\* one call; ff is what ffmpeg does if it is run, db what the INSERT does
SaveAudioFile(filename, user, contact, audio_type, ff, db) ==
    LET n == saved.n + 1
        temp_file_path == MkPath(n, FileExtension(filename))
        \* lines 42-44: the upload is written to disk
        written == [fs EXCEPT !.files = @ \cup {temp_file_path}]
        \* line 49
        norm == EnsureMp3Format(temp_file_path, NoneId, written, action_recordings,
                                context_recordings, ff, "ok")
        mp3_file_path == norm.ret
        \* lines 59-64: the original is deleted if it was converted
        kept == IF temp_file_path # mp3_file_path
                  THEN [norm.fs EXCEPT !.files = @ \ {temp_file_path}]
                  ELSE norm.fs
        linked == LatestAction(action_recordings, user, contact)
        call == [n |-> n, filename |-> filename, user_id |-> user, contact_id |-> contact,
                 audio_type |-> audio_type, raised |-> FALSE, returned |-> <<>>]
        \* lines 155-157: whatever was raised is raised again as Exception
        Fails == /\ saved' = [call EXCEPT !.raised = TRUE]
                 /\ UNCHANGED <<action_recordings, context_recordings>>
    IN /\ saved.n < MaxSaves
       /\ fs' = kept
       /\ IF audio_type = "action"
            THEN IF db = "ok"
                   THEN /\ action_recordings' = action_recordings
                              \cup {ActionRow(n, user, contact, mp3_file_path)}
                        /\ saved' = [call EXCEPT !.returned = SaveResult(n, mp3_file_path)]
                        /\ UNCHANGED context_recordings
                   ELSE Fails
          ELSE IF audio_type = "context"
            THEN IF contact = ContactNone \/ linked = {} \/ db # "ok"
                   THEN Fails
                   ELSE /\ \E a \in linked :
                             context_recordings' = context_recordings
                                \cup {ContextRow(n, user, contact, a.id, mp3_file_path)}
                        /\ saved' = [call EXCEPT !.returned = SaveResult(n, mp3_file_path)]
                        /\ UNCHANGED action_recordings
          ELSE Fails
       /\ UNCHANGED <<auth, conversions, orch, pre, harness>>

SaveInit ==
    /\ Idle
    /\ pre = NoPre
    /\ n_file_path = NonePath
    /\ n_recording_id = NoneId
    /\ n_calls = [p \in Procs |-> NoCall]
    /\ conversions = [i \in RecIds |-> 0]
    /\ saved = NoSave
    /\ auth = NoAuth
    /\ action_recordings = {}
    /\ context_recordings = {}
    /\ fs = [files |-> {}, partial |-> {}]

\* uploads of every kind of file name, every ffmpeg outcome
Filenames == {<<"rec", "webm">>, <<"rec">>, <<"rec", "mp3">>, <<"rec", "MP3">>,
              <<"rec", "v2", "WAV">>, <<"rec", "txt">>}
AudioTypes == {"action", "context", "other"}
Contacts == {1, 2}

UploadCall ==
    \E filename \in Filenames, audio_type \in {"action", "context"},
       ff \in FfmpegOutcomes, db \in {"ok", "fault"} :
        SaveAudioFile(filename, Caller, 1, audio_type, ff, db)

UploadSpec == SaveInit /\ [][UploadCall]_vars

\* uploads of .mp3 files by every user, for every contact, of every audio_type
LinkCall ==
    \E user \in Users, contact \in Contacts \cup {ContactNone}, audio_type \in AudioTypes,
       db \in {"ok", "fault"} :
        SaveAudioFile(<<"rec", "mp3">>, user, contact, audio_type, "ok", db)

LinkSpec == SaveInit /\ [][LinkCall]_vars

(***************************************************************************)
(* AuthService.  A JWT is its payload: sub, type, and a serial standing    *)
(* for the exp claim that tells two tokens of a user apart.  The tokens    *)
(* signed with SECRET_KEY are those the service issued; any other token    *)
(* fails jwt.decode.  Whether a token has expired when it is presented is  *)
(* up to the time that has passed: an input of the call.  Every user in    *)
(* Users has a row in the users table.                                     *)
(***************************************************************************)
\* lines 55-65
CreateAccessToken(data, serial) == [sub |-> data.sub, type |-> "access", serial |-> serial]

\* lines 68-74
CreateRefreshToken(data, serial) == [sub |-> data.sub, type |-> "refresh", serial |-> serial]

\* a token not signed with SECRET_KEY
Forged == [sub |-> 1, type |-> "access", serial |-> 0]

\* lines 77-91: the payload, or the detail of the 401 raised
VerifyToken(token, expired) ==
    IF token \notin auth.issued THEN [ok |-> FALSE, detail |-> "Invalid token"]
    ELSE IF expired THEN [ok |-> FALSE, detail |-> "Token has expired"]
    ELSE [ok |-> TRUE, payload |-> token]

Unauthorized(op, token, detail) ==
    [op |-> op, token |-> <<token>>, status |-> 401, detail |-> detail, user |-> 0]

\* lines 253-285, found user and right password: both tokens issued, session created
Login(user) ==
    /\ Cardinality(auth.issued) + 2 <= MaxTokens
    /\ LET n == Cardinality(auth.issued)
           token_data == [sub |-> user]
           access_token == CreateAccessToken(token_data, n + 1)
           refresh_token == CreateRefreshToken(token_data, n + 2)
       IN auth' = [issued |-> auth.issued \cup {access_token, refresh_token},
                   sessions |-> auth.sessions \cup {refresh_token},
                   call |-> [op |-> "login", token |-> <<>>, status |-> 200,
                             detail |-> "", user |-> user]]
    /\ UNCHANGED <<store, conversions, saved, orch, pre, harness>>

\* lines 287-299
Logout(token, expired) ==
    /\ LET v == VerifyToken(token, expired)
       IN auth' = [auth EXCEPT
                     !.sessions = IF v.ok THEN {t \in @ : t.sub # v.payload.sub} ELSE @,
                     !.call = [op |-> "logout", token |-> <<token>>, status |-> 200,
                               detail |-> IF v.ok THEN "Successfully logged out"
                                                  ELSE "Already logged out",
                               user |-> 0]]
    /\ UNCHANGED <<store, conversions, saved, orch, pre, harness>>

\* lines 301-325
GetCurrentUser(token, expired) ==
    /\ LET v == VerifyToken(token, expired)
       IN auth' = [auth EXCEPT !.call =
                     IF ~v.ok THEN Unauthorized("get_current_user", token, v.detail)
                     ELSE IF v.payload.sub \notin Users
                       THEN Unauthorized("get_current_user", token, "User not found")
                     ELSE [op |-> "get_current_user", token |-> <<token>>, status |-> 200,
                           detail |-> "", user |-> v.payload.sub]]
    /\ UNCHANGED <<store, conversions, saved, orch, pre, harness>>

\* lines 327-356
RefreshAccessToken(refresh_token, expired) ==
    /\ Cardinality(auth.issued) < MaxTokens
    /\ LET v == VerifyToken(refresh_token, expired)
           n == Cardinality(auth.issued)
       IN IF ~v.ok
            THEN auth' = [auth EXCEPT !.call =
                            Unauthorized("refresh_access_token", refresh_token, v.detail)]
          ELSE IF v.payload.type # "refresh"
            THEN auth' = [auth EXCEPT !.call =
                            Unauthorized("refresh_access_token", refresh_token,
                                         "Invalid token type")]
          ELSE IF refresh_token \notin auth.sessions
            THEN auth' = [auth EXCEPT !.call =
                            Unauthorized("refresh_access_token", refresh_token,
                                         "Invalid session")]
          ELSE auth' = [auth EXCEPT
                          !.issued = @ \cup {CreateAccessToken([sub |-> v.payload.sub],
                                                               n + 1)},
                          !.call = [op |-> "refresh_access_token",
                                    token |-> <<refresh_token>>, status |-> 200,
                                    detail |-> "", user |-> v.payload.sub]]
    /\ UNCHANGED <<store, conversions, saved, orch, pre, harness>>

\* the bearer tokens a client can present
Presentable == auth.issued \cup {Forged}

AuthNext ==
    \/ \E user \in Users : Login(user)
    \/ \E token \in Presentable, expired \in BOOLEAN : Logout(token, expired)
    \/ \E token \in Presentable, expired \in BOOLEAN : GetCurrentUser(token, expired)
    \/ \E token \in Presentable, expired \in BOOLEAN : RefreshAccessToken(token, expired)

AuthSpec == SaveInit /\ [][AuthNext]_vars

(***************************************************************************)
(* Two calls of _ensure_mp3_format running at the same time on two         *)
(* different Recordings: call p is given the stored path and the id of     *)
(* Recording p (lines 307-308).  save_audio_file (lines 38-39, 69) names   *)
(* every upload with a fresh uuid4 and gives every row a fresh uuid4 id,   *)
(* so two Recordings never share a file stem or an id.  Each Recording is  *)
(* a row of either table; its file is on disk; the .mp3 sibling of an      *)
(* upload that is not .mp3 is absent, complete, or the incomplete output   *)
(* of an earlier failed transcode.                                         *)
(***************************************************************************)
DistinctExts == {"mp3", "webm", "WAV"}

DistinctStates ==
    {st \in [tbl : {"action", "context"}, ext : DistinctExts,
             sibling : {"absent", "complete", "partial"}] :
        st.ext = "mp3" => st.sibling = "absent"}

DistinctInit ==
    /\ Idle
    /\ conversions = [i \in RecIds |-> 0]
    /\ saved = NoSave
    /\ auth = NoAuth
    /\ n_file_path = NonePath
    /\ n_recording_id = NoneId
    /\ \E st \in [RecIds -> DistinctStates] :
         LET rows(t) == {MkRow(i, Caller, MkPath(i, st[i].ext)) :
                            i \in {j \in RecIds : st[j].tbl = t}}
             d == [files |-> {MkPath(i, st[i].ext) : i \in RecIds}
                             \cup {MkPath(i, "mp3") :
                                     i \in {j \in RecIds : st[j].sibling # "absent"}},
                   partial |-> {MkPath(i, "mp3") :
                                   i \in {j \in RecIds : st[j].sibling = "partial"}}]
         IN /\ action_recordings = rows("action")
            /\ context_recordings = rows("context")
            /\ fs = d
            /\ pre = [action |-> rows("action"), context |-> rows("context"), fs |-> d]
            /\ n_calls = [p \in Procs |-> CallOf(MkPath(p, st[p].ext), UuidObj(p))]

DistinctSpec == DistinctInit /\ [][ConcNext]_vars

(***************************************************************************)
(* Vocabulary of the properties.  They speak of the tables and directory   *)
(* as the invocation found them (pre) and of its arguments.                *)
(***************************************************************************)
ResolveSteps == {"query", "count", "loop", "mapcheck"}
PostResolve == {"norm_rel", "norm_con", "upload1", "upload2", "poll", "sleep", "check",
                "generate", "package", "done"}

PreRows == pre.action \cup pre.context

\* both recording identifiers parse as UUIDs
WellFormed == pc # "idle" /\ ~InvalidUuidFormat

\* a Recording with UUID v exists / is owned by the requesting user / by another
Exists(v) == \E r \in PreRows : r.id = v
OwnedBy(v) == \E r \in PreRows : r.id = v /\ r.user_id = user_uuid
Foreign(v) == \E r \in PreRows : r.id = v /\ r.user_id # user_uuid

StoredPath(v) == (CHOOSE r \in PreRows : r.id = v).file_path
OnDisk(v) == StoredPath(v) \in pre.fs.files

Failed == pc = "failed"
StoreFaulted == exc.kind = "StoreError"

\* the invocation has only read: the tables and the directory are as before the
\* call and the history holds store lookups and existence checks only
NoEffects ==
    /\ action_recordings = pre.action
    /\ context_recordings = pre.context
    /\ fs = pre.fs
    /\ \A i \in 1..Len(events) : events[i] \in {"fetch", "exists"}

CountOf(e, upto) == Cardinality({i \in 1..upto : events[i] = e})

(***************************************************************************)
(* C1  For every pair of identifiers that resolve to two distinct          *)
(* Recordings owned by the caller, files on disk, the resolve step         *)
(* succeeds (it fails only if the store itself faults) and hands the       *)
(* normalizer the stored path of the Recording named relationship as the   *)
(* relationship path and that of the Recording named content as the        *)
(* content path, in whatever order the rows came back.                     *)
(***************************************************************************)
TwoOwnedOnDisk ==
    /\ WellFormed
    /\ relationship_uuid # content_uuid
    /\ OwnedBy(relationship_uuid) /\ OnDisk(relationship_uuid)
    /\ OwnedBy(content_uuid) /\ OnDisk(content_uuid)

C1_ResolvesByIdentifier ==
    TwoOwnedOnDisk =>
        /\ Failed => StoreFaulted
        /\ pc = "norm_rel" =>
              /\ relationship_audio_path = StoredPath(relationship_uuid)
              /\ content_audio_path = StoredPath(content_uuid)

(***************************************************************************)
(* C2  Whenever the invocation is at or past its first _ensure_mp3_format  *)
(* call, its two identifiers name two distinct Recordings, both owned by   *)
(* the requesting user, whose stored files were found on disk; at the      *)
(* first call the paths held are the stored paths of the relationship and  *)
(* of the content Recording respectively.  In every other situation the    *)
(* invocation never gets that far.                                         *)
(***************************************************************************)
C2_NormalizeOnlyResolved ==
    pc \in PostResolve =>
        /\ TwoOwnedOnDisk
        /\ CountOf("exists", Len(events)) = 2
        /\ pc = "norm_rel" =>
              /\ relationship_audio_path = StoredPath(relationship_uuid)
              /\ content_audio_path = StoredPath(content_uuid)
              /\ NoEffects

C2_Witness ==
    /\ pc = "norm_rel"
    /\ IsConvertible(relationship_audio_path)
    /\ recordings[1].id = content_uuid

(***************************************************************************)
(* C3  (as claimed) When an identifier names a Recording of another user,  *)
(* the invocation fails with the ownership fault before any normalization  *)
(* or synthesis, whatever the other identifier is.                         *)
(***************************************************************************)
ForeignNamed == WellFormed /\ (Foreign(relationship_uuid) \/ Foreign(content_uuid))

DuplicateInput == WellFormed /\ relationship_uuid = content_uuid

C4_DuplicateIsAmbiguous ==
    DuplicateInput =>
        /\ pc \notin PostResolve
        /\ (Failed /\ ~StoreFaulted) => (exc.kind = "Ambiguous" /\ NoEffects)

(***************************************************************************)
(* C5  When neither identifier names a Recording of the caller, the fault  *)
(* is not-found exactly when neither names a Recording of anybody, and the *)
(* ownership fault exactly when one of them names somebody else's          *)
(* (identifiers well formed, store not faulting).                          *)
(***************************************************************************)
NoneOwned == WellFormed /\ ~OwnedBy(relationship_uuid) /\ ~OwnedBy(content_uuid)

C5_NotFoundVersusOwnership ==
    NoneOwned =>
        /\ pc \notin PostResolve
        /\ (Failed /\ ~StoreFaulted) =>
              /\ exc.kind \in {"NotFound", "Ownership"}
              /\ exc.kind = "NotFound" <=>
                    (~Exists(relationship_uuid) /\ ~Exists(content_uuid))
              /\ exc.kind = "Ownership" <=>
                    (Exists(relationship_uuid) \/ Exists(content_uuid))

C5_Witness ==
    /\ Failed
    /\ exc.kind = "Ownership"
    /\ ~Exists(relationship_uuid)
    /\ Foreign(content_uuid)

(***************************************************************************)
(* C6  When exactly one identifier names a Recording of the caller, the    *)
(* fault is the incomplete-resolution fault and names the role and the     *)
(* identifier that did not resolve, in whatever form the identifiers were  *)
(* passed.                                                                 *)
(***************************************************************************)
ExactlyOneOwned == WellFormed /\ (OwnedBy(relationship_uuid) # OwnedBy(content_uuid))

C6_MissingRoleNamed ==
    (ExactlyOneOwned /\ Failed /\ ~StoreFaulted) =>
        /\ exc.kind = "Incomplete"
        /\ IF OwnedBy(relationship_uuid)
             THEN exc.role = "content" /\ exc.id = content_recording_id
             ELSE exc.role = "relationship" /\ exc.id = relationship_recording_id

(***************************************************************************)
(* C7  When both identifiers resolve and the stored file of exactly one of *)
(* the two Recordings is absent, the invocation fails in the resolve step, *)
(* before any normalization or synthesis, with the missing-file fault      *)
(* naming the id and the path of the Recording whose file is absent.       *)
(***************************************************************************)
OneFileAbsent ==
    /\ WellFormed
    /\ relationship_uuid # content_uuid
    /\ OwnedBy(relationship_uuid) /\ OwnedBy(content_uuid)
    /\ OnDisk(relationship_uuid) # OnDisk(content_uuid)

AbsentOne == IF OnDisk(relationship_uuid) THEN content_uuid ELSE relationship_uuid

C7_MissingFileNamesRecording ==
    OneFileAbsent =>
        /\ pc \notin PostResolve
        /\ (Failed /\ ~StoreFaulted) =>
              /\ exc.kind = "MissingFile"
              /\ exc.id = UuidObj(AbsentOne)
              /\ exc.path = StoredPath(AbsentOne)
              /\ NoEffects

C7_Witness ==
    /\ Failed
    /\ OneFileAbsent
    /\ exc.kind = "MissingFile"
    /\ recordings[2].id = AbsentOne

FaultKinds == {"InvalidUUID", "NotFound", "Ownership", "Incomplete", "Ambiguous",
               "NoPath", "MissingFile", "Unmappable", "StoreError", "TypeError"}

C9_FailFast ==
    Failed => (exc.at \in ResolveSteps /\ NoEffects)

C9_Witness ==
    /\ Failed
    /\ exc.kind = "Unmappable"
    /\ \E i \in 1..Len(recordings) : IsConvertible(recordings[i].file_path)

(***************************************************************************)
(* C10  The stages run in the order resolve, normalize, synthesize,        *)
(* package, none re-entered: every store lookup and existence check        *)
(* precedes the first transcode or metadata write, both normalizations     *)
(* have returned before the first upload, the synthesizer returns once and *)
(* the result is packaged once, after it.                                  *)
(***************************************************************************)
StageOf(e) ==
    CASE e \in {"fetch", "exists"} -> 1
      [] e \in {"norm_call", "transcode", "dbwrite", "norm_return"} -> 2
      [] e \in {"upload", "get_file", "generate", "synth_return"} -> 3
      [] OTHER -> 4

C10_StagesInOrder ==
    /\ \A i, j \in 1..Len(events) : i < j => StageOf(events[i]) <= StageOf(events[j])
    /\ \A i \in 1..Len(events) :
          /\ events[i] = "upload" => CountOf("norm_return", i) = 2
          /\ events[i] = "package" => CountOf("synth_return", i) = 1
    /\ CountOf("norm_call", Len(events)) <= 2
    /\ CountOf("synth_return", Len(events)) <= 1
    /\ CountOf("package", Len(events)) <= 1
    /\ pc = "done" => events[Len(events)] = "package"

C10_Witness ==
    /\ pc = "done"
    /\ CountOf("transcode", Len(events)) = 2
    /\ CountOf("get_file", Len(events)) > 0
    /\ CountOf("generate", Len(events)) = 1

(***************************************************************************)
(* C11  (as claimed) Once the uploads are made and one of them is not      *)
(* ready, either both become ready after all or the orchestrator           *)
(* eventually returns a Packaged result whose text explains the failure:   *)
(* it never waits forever.                                                 *)
(***************************************************************************)
BothActive == audio_file1 = "ACTIVE" /\ audio_file2 = "ACTIVE"
OneProcessing == audio_file1 = "PROCESSING" \/ audio_file2 = "PROCESSING"

PackagedFailure ==
    /\ pc = "done"
    /\ result.processing_method = "direct_audio_to_gemini"
    /\ result.email \in {"err_file1", "err_file2", "err_exception"}

C11_NeverReadyStillReturns ==
    (pc = "poll" /\ ~BothActive) ~> (PackagedFailure \/ (pc = "poll" /\ BothActive))

(***************************************************************************)
(* C11  (amended) Once both uploads have left the processing state and one *)
(* of them has settled in a state that is not ready, the orchestrator      *)
(* eventually returns a Packaged result whose text names the file that     *)
(* could not be processed, and does not raise.  While an upload is still   *)
(* processing the readiness loop only goes round: the orchestrator leaves  *)
(* it only when the provider answers otherwise or a provider call faults.  *)
(***************************************************************************)
C11_SettledNonReadyReturns ==
    /\ (pc = "poll" /\ ~OneProcessing /\ ~BothActive)
          ~> (PackagedFailure /\ result.email \in {"err_file1", "err_file2"})
    /\ [][(pc = "sleep" /\ audio_file1' = audio_file1 /\ audio_file2' = audio_file2)
             => pc' = "poll"]_vars
    /\ [][(pc = "poll" /\ OneProcessing) => pc' = "sleep"]_vars

C11_Witness ==
    /\ PackagedFailure
    /\ result.email = "err_file2"
    /\ CountOf("get_file", Len(events)) > 0

(***************************************************************************)
(* C12  Errors as content: from its first upload to its return the         *)
(* synthesizer never raises.  Whatever the provider does, a fault in an    *)
(* upload, in a readiness poll or in the generation call included, it      *)
(* returns a text, and the orchestrator packages that text: no invocation  *)
(* that got past resolution and normalization fails.                       *)
(***************************************************************************)
SynthSteps == {"upload1", "upload2", "poll", "sleep", "check", "generate"}
SynthTexts == {"generated", "err_file1", "err_file2", "err_api", "err_exception"}

C12_ErrorsAsContent ==
    /\ [][(pc \in SynthSteps) => (pc' \in SynthSteps \cup {"package"} /\ exc' = NoExc)]_vars
    /\ [][pc = "package" =>
             /\ pc' = "done"
             /\ result' = [email |-> email_result,
                           processing_method |-> "direct_audio_to_gemini"]]_vars
    /\ [](pc = "package" => email_result \in SynthTexts)

C12_Witness ==
    /\ pc = "done"
    /\ result.email = "err_exception"
    /\ CountOf("upload", Len(events)) = 2

(***************************************************************************)
(* C13  The generation request is issued only with both uploads ACTIVE and *)
(* at most once per invocation; when an upload has settled in another      *)
(* state the synthesizer returns the error text of that file and no        *)
(* generation request was issued.                                          *)
(***************************************************************************)
C13_GenerateOnlyWhenActive ==
    /\ pc = "generate" => BothActive
    /\ CountOf("generate", Len(events)) <= 1
    /\ email_result \in {"err_file1", "err_file2"} => CountOf("generate", Len(events)) = 0
    /\ CountOf("generate", Len(events)) = 1 => email_result \in {"generated", "err_api"}

C13_Witness ==
    /\ pc = "package"
    /\ email_result = "err_file1"
    /\ CountOf("get_file", Len(events)) > 0

(***************************************************************************)
(* C14  Given two distinct Recordings of the caller whose files exist and  *)
(* are stored as .mp3, the invocation does not fail, and when it returns   *)
(* the result carries processing_method "direct_audio_to_gemini" and, as   *)
(* email, exactly the (non-empty) text the synthesizer returned; no        *)
(* transcode ran and no metadata was written.                              *)
(***************************************************************************)
CanonicalPair ==
    /\ TwoOwnedOnDisk
    /\ IsMp3(StoredPath(relationship_uuid))
    /\ IsMp3(StoredPath(content_uuid))

C14_CanonicalPairPackaged ==
    CanonicalPair =>
        /\ Failed => StoreFaulted
        /\ action_recordings = pre.action
        /\ context_recordings = pre.context
        /\ fs = pre.fs
        /\ CountOf("transcode", Len(events)) = 0
        /\ CountOf("dbwrite", Len(events)) = 0
        /\ pc = "done" =>
              /\ result.processing_method = "direct_audio_to_gemini"
              /\ result.email = email_result
              /\ result.email \in SynthTexts

(***************************************************************************)
(* Vocabulary of the properties of _ensure_mp3_format called on its own.   *)
(***************************************************************************)
Sibling == MkPath(n_file_path.stem, "mp3")
Returned(p) == n_calls[p].pc = "returned"
ToolFailed(p) == n_calls[p].ff \in {"error", "error_partial", "absent"}

\* the suffix of the path given, lower-cased, is .mp3 / is one the code converts
GivenMp3 == SuffixLower(n_file_path) = "mp3"
GivenConvertible == SuffixLower(n_file_path) \in {"webm", "wav", "m4a", "ogg"}

\* the rows of the Recording named by recording_id, now
RowsOfId ==
    {r \in action_recordings \cup context_recordings : r.id = ToUuid(n_recording_id)}

(***************************************************************************)
(* C15  (as claimed) Whatever the path given and whatever the transcoder   *)
(* does, the path returned has the .mp3 extension and names a complete     *)
(* .mp3 file.                                                              *)
(***************************************************************************)
C15_AlwaysCanonical ==
    \A p \in Procs :
        Returned(p) => (IsMp3(n_calls[p].ret) /\ n_calls[p].ret \notin fs.partial)

(***************************************************************************)
(* C15  (amended) The path returned has the .mp3 extension exactly when    *)
(* the path given has it already, or has a convertible extension and       *)
(* either the .mp3 sibling was on disk or the transcode succeeded; it is   *)
(* then the path given, respectively the sibling.  In every other case     *)
(* (the tool reports an error, the tool is absent, the extension is not    *)
(* supported) the path returned is the path given, which is not .mp3.      *)
(***************************************************************************)
C15_CanonicalUnlessDegraded ==
    Returned(1) =>
        LET ret == n_calls[1].ret
            converted == GivenConvertible /\ (Sibling \in pre.fs.files \/ n_calls[1].ff = "ok")
        IN /\ IsMp3(ret) <=> (GivenMp3 \/ converted)
           /\ ret = IF converted THEN Sibling ELSE n_file_path

C15_Witness ==
    /\ Returned(1)
    /\ n_calls[1].ff = "error"
    /\ n_calls[1].ret = n_file_path
    /\ ~IsMp3(n_calls[1].ret)

(***************************************************************************)
(* C16  _ensure_mp3_format never raises, whatever the path, the transcoder *)
(* (success, error reported, tool absent) and the store (success, fault)   *)
(* do; when the tool reports an error or is absent the call returns the    *)
(* path given and writes no Recording metadata.                            *)
(***************************************************************************)
C16_NeverRaises ==
    \A p \in Procs :
        /\ n_calls[p].pc # "raised"
        /\ (Returned(p) /\ ToolFailed(p)) =>
              /\ n_calls[p].ret = n_file_path
              /\ n_calls[p].db = "not_run"
              /\ \A i \in 1..Len(n_calls[p].ev) : n_calls[p].ev[i] # "dbwrite"
              /\ (p = 1 /\ ~Returned(2)) =>
                    (action_recordings = pre.action /\ context_recordings = pre.context)

C16_Witness ==
    /\ Returned(1)
    /\ n_calls[1].ff = "absent"
    /\ Truthy(n_recording_id)
    /\ RowsOfId # {}

(***************************************************************************)
(* C17  (as claimed) Whatever the first call did, a second call made right *)
(* after it with the same path returns the same path and does not run the  *)
(* transcoder.                                                             *)
(***************************************************************************)
C17_IdempotentAlways ==
    (Returned(1) /\ Returned(2)) =>
        (n_calls[2].ret = n_calls[1].ret /\ n_calls[2].ff = "not_run")

(***************************************************************************)
(* C17  (amended) A second call made right after the first with the same   *)
(* path returns the same path and does not run the transcoder whenever the *)
(* first call did not meet a transcoder failure (the path was passed       *)
(* through, the sibling was reused or the transcode succeeded).  After a   *)
(* failed transcode the second call is not a repetition of the first: it   *)
(* runs the transcoder again when the failure left no output, and when the *)
(* failure left an incomplete sibling it returns that sibling without      *)
(* running the transcoder.                                                 *)
(***************************************************************************)
C17_IdempotentAfterSuccess ==
    (Returned(1) /\ Returned(2)) =>
        /\ ~ToolFailed(1) => (n_calls[2].ret = n_calls[1].ret /\ n_calls[2].ff = "not_run")
        /\ n_calls[1].ff \in {"error", "absent"} => n_calls[2].ff # "not_run"
        /\ n_calls[1].ff = "error_partial" =>
              (n_calls[2].ff = "not_run" /\ n_calls[2].ret = Sibling /\ Sibling \in fs.partial)

C17_Witness ==
    /\ Returned(1) /\ Returned(2)
    /\ n_calls[1].ff = "ok"
    /\ n_calls[2].ff = "not_run"
    /\ n_calls[2].ret = Sibling

(***************************************************************************)
(* C18  When the suffix of the path given is .mp3 in any letter case, or   *)
(* is not one of .webm .wav .m4a .ogg, the call returns the path given and *)
(* does nothing else: no transcoder run, no file written, no metadata      *)
(* written, also when a Recording id is given.                             *)
(***************************************************************************)
C18_PassThroughNoEffect ==
    (GivenMp3 \/ ~GivenConvertible) =>
        /\ fs = pre.fs
        /\ action_recordings = pre.action
        /\ context_recordings = pre.context
        /\ \A p \in Procs :
              Returned(p) =>
                  /\ n_calls[p].ret = n_file_path
                  /\ n_calls[p].ev = <<>>
                  /\ n_calls[p].ff = "not_run"
                  /\ n_calls[p].db = "not_run"

C18_Witness ==
    /\ Returned(1)
    /\ n_file_path.ext = "MP3"
    /\ Truthy(n_recording_id)
    /\ RowsOfId # {}

(***************************************************************************)
(* C19  When the call is given the id of a Recording and returns the .mp3  *)
(* sibling, after a transcode or on a cache hit, and the store does not    *)
(* fault, the Recording's row holds on return the returned path, the       *)
(* sibling's file name and the format 'audio/mp3', in whichever of the two *)
(* tables the Recording is.                                                *)
(***************************************************************************)
C19_MetadataFollowsSibling ==
    (/\ Returned(1) /\ ~Returned(2)
     /\ Truthy(n_recording_id)
     /\ RowsOfId # {}
     /\ n_calls[1].ret = Sibling /\ ~GivenMp3
     /\ n_calls[1].db # "fault") =>
        \A r \in RowsOfId :
            /\ r.file_path = n_calls[1].ret
            /\ r.filename = BaseName(Sibling)
            /\ r.format = "audio/mp3"

(***************************************************************************)
(* C20  Two calls normalizing at the same time the same Recording, whose   *)
(* .mp3 sibling does not exist yet, with every transcode succeeding and    *)
(* the store not faulting: under every interleaving both return the        *)
(* sibling, each having transcoded or taken the cache hit, and when both   *)
(* have returned the Recording's row holds the sibling path and the format *)
(* 'audio/mp3'.                                                            *)
(***************************************************************************)
NotYetConverted ==
    /\ GivenConvertible
    /\ Sibling \notin pre.fs.files
    /\ Truthy(n_recording_id)
    /\ \E r \in pre.action \cup pre.context : r.id = ToUuid(n_recording_id)

C20_ConcurrentNormalization ==
    (/\ NotYetConverted
     /\ \A p \in Procs :
           /\ Returned(p)
           /\ n_calls[p].ff \in {"ok", "not_run"}
           /\ n_calls[p].db # "fault") =>
        /\ \A p \in Procs : n_calls[p].ret = Sibling
        /\ \A r \in RowsOfId : r.file_path = Sibling /\ r.format = "audio/mp3"

(***************************************************************************)
(* C21  Two calls running at the same time on two different Recordings do  *)
(* not contend: under every interleaving, once both have returned, each    *)
(* has returned the path, and left the files and the rows of its own       *)
(* Recording in the state, that the same call produces when it runs alone  *)
(* from the same beginning; and no step of a call changes a file or a row  *)
(* of the other Recording.                                                 *)
(***************************************************************************)
\* what call p produces running alone from the state both calls began in,
\* its ffmpeg run and its store doing what they did
Alone(p) ==
    EnsureMp3Format(FilePath(p), RecordingId(p), pre.fs, pre.action, pre.context,
                    n_calls[p].ff, n_calls[p].db)

\* the part of a directory / of the two tables that belongs to the Recording of call p
FilesOfCall(p, dir) ==
    [files |-> {f \in dir.files : f.stem = FilePath(p).stem},
     partial |-> {f \in dir.partial : f.stem = FilePath(p).stem}]
RowsOfCall(p, act, ctx) ==
    [action |-> {r \in act : r.id = ToUuid(RecordingId(p))},
     context |-> {r \in ctx : r.id = ToUuid(RecordingId(p))}]

C21_DistinctRecordingsNoContention ==
    /\ []((\A p \in Procs : Returned(p)) =>
            \A p \in Procs :
               /\ n_calls[p].ret = Alone(p).ret
               /\ FilesOfCall(p, fs) = FilesOfCall(p, Alone(p).fs)
               /\ RowsOfCall(p, action_recordings, context_recordings)
                     = RowsOfCall(p, Alone(p).action, Alone(p).context))
    /\ [][\A p \in Procs : n_calls'[p] # n_calls[p] =>
             \A q \in Procs \ {p} :
                /\ FilesOfCall(q, fs') = FilesOfCall(q, fs)
                /\ RowsOfCall(q, action_recordings', context_recordings')
                      = RowsOfCall(q, action_recordings, context_recordings)]_vars

C21_Witness ==
    /\ FilePath(1) # FilePath(2)
    /\ \A p \in Procs :
          /\ Returned(p)
          /\ n_calls[p].ev = <<"transcode", "dbwrite">>
          /\ n_calls[p].ret = WithSuffixMp3(FilePath(p))
          /\ \E r \in action_recordings \cup context_recordings :
                r.id = ToUuid(RecordingId(p)) /\ r.file_path = n_calls[p].ret

(***************************************************************************)
(* C22  Convert once, reuse after: over any sequence of invocations, one   *)
(* after the other, the transcoder ends successfully at most once for a    *)
(* Recording.  Once it has, no later normalization runs the transcoder     *)
(* for that Recording, and every invocation that normalizes the Recording  *)
(* goes on with its .mp3 file, which is on disk and complete.              *)
(***************************************************************************)
Converted(i) == conversions[i] >= 1

\* this step runs the transcoder on a file of Recording i
TranscoderRunFor(i) ==
    \/ /\ pc = "norm_rel" /\ relationship_audio_path.stem = i
       /\ CountOf("transcode", Len(events))' > CountOf("transcode", Len(events))
    \/ /\ pc = "norm_con" /\ content_audio_path.stem = i
       /\ CountOf("transcode", Len(events))' > CountOf("transcode", Len(events))

C22_ConvertOnceReuseAfter ==
    /\ [](\A i \in RecIds : conversions[i] <= 1)
    /\ [][\A i \in RecIds : Converted(i) => ~TranscoderRunFor(i)]_vars
    /\ [](\A i \in RecIds :
            Converted(i) =>
               /\ MkPath(i, "mp3") \in fs.files \ fs.partial
               /\ (pc \in {"norm_con", "upload1", "upload2"}
                     /\ relationship_audio_path.stem = i)
                    => relationship_audio_path = MkPath(i, "mp3")
               /\ (pc \in {"upload1", "upload2"} /\ content_audio_path.stem = i)
                    => content_audio_path = MkPath(i, "mp3"))

\* a second invocation takes the cache hit for a Recording converted by an earlier
\* one, whose row still holds the .webm path
C22_Witness ==
    /\ pc = "norm_con"
    /\ Converted(relationship_uuid)
    /\ CountOf("norm_return", Len(events)) = 1
    /\ CountOf("transcode", Len(events)) = 0
    /\ relationship_audio_path = MkPath(relationship_uuid, "mp3")
    /\ StoredPath(relationship_uuid) = MkPath(relationship_uuid, "webm")

(***************************************************************************)
(* C23  save_audio_file always stores MP3: every row it has inserted, and  *)
(* the result it returns, carries a file_path whose extension is .mp3 and  *)
(* which names a file on disk, in keeping with the format 'audio/mp3' it   *)
(* records, whatever the name of the uploaded file and whatever ffmpeg     *)
(* does.                                                                   *)
(***************************************************************************)
StoredAsMp3(r) ==
    /\ r.format = "audio/mp3"
    /\ IsMp3(r.file_path)
    /\ r.file_path \in fs.files

C23_SaveAlwaysStoresMp3 ==
    /\ \A r \in action_recordings \cup context_recordings : StoredAsMp3(r)
    /\ saved.returned # <<>> => StoredAsMp3(saved.returned[1])

(***************************************************************************)
(* C24  A sibling .mp3 that _ensure_mp3_format accepts as a cache hit is   *)
(* the complete output of a transcode that ended successfully: whatever    *)
(* calls came before or run at the same time, failed and unfinished        *)
(* transcodes included, no call takes the cache hit of line 353 on a file  *)
(* that is the incomplete output of a failed or running transcode.         *)
(***************************************************************************)
\* this step is the test of line 353 by call p, found true
TakesCacheHit(p) == At(p, "exists") /\ n_calls'[p].pc \in {"update", "returned"}

C24_CacheHitIsCompleteOutput ==
    [][\A p \in Procs :
          TakesCacheHit(p) => WithSuffixMp3(FilePath(p)) \notin fs.partial]_vars

(***************************************************************************)
(* C25  Resolution does not depend on the form in which a valid identifier *)
(* is given.  Given as a UUID object or as any text uuid.UUID accepts, in  *)
(* whatever letter case, the identifiers lead to the outcome their         *)
(* canonical lower-case text leads to: when the rows have been gone        *)
(* through, the relationship path is the stored path of the row whose id   *)
(* is the relationship identifier and the content path that of the row     *)
(* whose id is the content identifier; and when one Recording alone was    *)
(* found, the role reported missing is the one whose identifier is not     *)
(* the id of the row found.                                                *)
(***************************************************************************)
\* the path of the row fetched under id v, None if no such row was fetched
FetchedPath(v) ==
    IF \E k \in 1..Len(recordings) : recordings[k].id = v
      THEN recordings[CHOOSE k \in 1..Len(recordings) : recordings[k].id = v].file_path
      ELSE NonePath

C25_IdentifierFormIndependent ==
    WellFormed =>
        /\ pc = "mapcheck" =>
              /\ relationship_audio_path = FetchedPath(relationship_uuid)
              /\ content_audio_path =
                    IF content_uuid = relationship_uuid
                      THEN NonePath ELSE FetchedPath(content_uuid)
        /\ (Failed /\ exc.kind = "Incomplete") =>
              exc.role = IF recordings[1].id = relationship_uuid
                           THEN "content" ELSE "relationship"

(***************************************************************************)
(* C26  Roles are kept from resolve to generate.  The path normalized      *)
(* together with relationship_recording_id is the stored path of the       *)
(* relationship Recording, the one normalized with content_recording_id    *)
(* that of the content Recording; the synthesizer uploads as audio_file1   *)
(* the normalized relationship path and as audio_file2 the normalized      *)
(* content path; and the generation request carries, in this order, the    *)
(* prompt, the relationship upload and the content upload.                 *)
(***************************************************************************)
\* what normalizing the stored file of Recording v can return
NormalizedPaths(v) == {StoredPath(v), WithSuffixMp3(StoredPath(v))}

C26_RolesPreserved ==
    /\ pc = "norm_rel" => relationship_audio_path = StoredPath(relationship_uuid)
    /\ pc = "norm_con" =>
          /\ content_audio_path = StoredPath(content_uuid)
          /\ relationship_audio_path \in NormalizedPaths(relationship_uuid)
    /\ pc = "upload1" =>
          /\ relationship_audio_path \in NormalizedPaths(relationship_uuid)
          /\ content_audio_path \in NormalizedPaths(content_uuid)
          /\ relationship_audio_path # content_audio_path
    /\ sent.file1 # NonePath => sent.file1 = relationship_audio_path
    /\ sent.file2 # NonePath => sent.file2 = content_audio_path
    /\ sent.contents # <<>> =>
          /\ Len(sent.contents) = 3
          /\ sent.contents[1] = "prompt"
          /\ sent.contents[2] \in NormalizedPaths(relationship_uuid)
          /\ sent.contents[3] \in NormalizedPaths(content_uuid)

\* rows fetched content first, relationship converted on the way, request answered
C26_Witness ==
    /\ pc = "package"
    /\ email_result = "generated"
    /\ recordings[1].id = content_uuid
    /\ StoredPath(relationship_uuid) = MkPath(relationship_uuid, "webm")
    /\ sent.contents = <<"prompt", MkPath(relationship_uuid, "mp3"),
                         StoredPath(content_uuid)>>

(***************************************************************************)
(* C27  (as claimed) The readiness poll goes on exactly while at least one *)
(* of the two uploads is in the processing state, refreshing both handles  *)
(* in each cycle, and ends as soon as neither is: from then on the         *)
(* synthesizer returns; and while an upload is still processing it returns *)
(* nothing, neither a text nor an error text, even if the other upload has *)
(* already failed.                                                         *)
(***************************************************************************)
InPollLoop == pc \in {"poll", "sleep"}

PollLoopShape ==
    /\ [][pc = "poll" => (pc' = "sleep" <=> OneProcessing)]_vars
    /\ [][(pc = "sleep" /\ pc' = "poll" /\ polls < MaxPolls)
             => events' = events \o <<"get_file", "get_file">>]_vars
    /\ (pc = "poll" /\ ~OneProcessing) ~> (pc = "package")

C27_NoResultWhileProcessing ==
    /\ PollLoopShape
    /\ [][(InPollLoop /\ OneProcessing) => InPollLoop']_vars

(***************************************************************************)
(* C27  (amended) As above, except that a readiness poll that faults ends  *)
(* the wait: the synthesizer then returns the error text of its exception  *)
(* handler although an upload is still processing.  Short of that it       *)
(* returns nothing while an upload is processing, even if the other has    *)
(* already failed.                                                         *)
(***************************************************************************)
C27_NoResultWhileProcessingUnlessFault ==
    /\ PollLoopShape
    /\ [][(InPollLoop /\ OneProcessing) =>
             \/ InPollLoop'
             \/ pc = "sleep" /\ pc' = "package" /\ email_result' = "err_exception"]_vars

\* a second look at the uploads, one failed and the other still processing
C27_Witness ==
    /\ pc = "sleep"
    /\ audio_file1 = "FAILED"
    /\ audio_file2 = "PROCESSING"
    /\ CountOf("get_file", Len(events)) = 2

(***************************************************************************)
(* C28  The two normalizations of an invocation are order-independent.     *)
(* For two resolved Recordings, and whatever ffmpeg and the store do in    *)
(* each call, normalizing relationship then content returns the same two   *)
(* paths and leaves the same files and the same rows as normalizing        *)
(* content then relationship; what the two calls have done when both have  *)
(* returned is that common outcome; and the path a call returns is the one *)
(* it returns with the other call not made.                                *)
(***************************************************************************)
\* call `first` and then call `second`, from the state both began in
InOrder(first, second) ==
    LET a == EnsureMp3Format(FilePath(first), RecordingId(first), pre.fs, pre.action,
                             pre.context, n_calls[first].ff, n_calls[first].db)
        b == EnsureMp3Format(FilePath(second), RecordingId(second), a.fs, a.action,
                             a.context, n_calls[second].ff, n_calls[second].db)
    IN [ret |-> [p \in Procs |-> IF p = first THEN a.ret ELSE b.ret],
        fs |-> b.fs, action |-> b.action, context |-> b.context]

C28_NormalizationOrderIndependent ==
    (\A p \in Procs : Returned(p)) =>
        /\ InOrder(1, 2) = InOrder(2, 1)
        /\ InOrder(1, 2) = [ret |-> [p \in Procs |-> n_calls[p].ret], fs |-> fs,
                            action |-> action_recordings, context |-> context_recordings]
        /\ \A p \in Procs : InOrder(1, 2).ret[p] = Alone(p).ret

\* the relationship Recording converted, the content Recording found converted
C28_Witness ==
    /\ \A p \in Procs : Returned(p)
    /\ n_calls[1].ev = <<"transcode", "dbwrite">>
    /\ n_calls[2].ev = <<"dbwrite">>
    /\ n_calls[2].ret = MkPath(2, "mp3")
    /\ FilePath(2) = MkPath(2, "WAV")

(***************************************************************************)
(* C29  save_audio_file with audio_type 'context' inserts a context        *)
(* Recording only when a contact_id is given and an action Recording of    *)
(* the same user and the same contact exists already, and links the new    *)
(* row to the most recently created of these.  Without a contact_id,       *)
(* without such an action Recording, or with an audio_type that is neither *)
(* 'action' nor 'context', the call fails and inserts no row.  So every    *)
(* context Recording references an action Recording of its own user and    *)
(* contact.                                                                *)
(***************************************************************************)
\* the action Recordings of a user and contact, before the step
ActionsFor(user, contact) ==
    {a \in action_recordings : a.user_id = user /\ a.contact_id = contact}

\* this step is a call of save_audio_file
SaveStep == saved'.n = saved.n + 1

ContextInserted ==
    /\ saved'.audio_type = "context"
    /\ saved'.contact_id # ContactNone
    /\ ActionsFor(saved'.user_id, saved'.contact_id) # {}
    /\ ~saved'.raised
    /\ action_recordings' = action_recordings
    /\ \E c \in context_recordings' \ context_recordings :
          /\ context_recordings' = context_recordings \cup {c}
          /\ c.id = saved'.returned[1].recording_id
          /\ c.user_id = saved'.user_id
          /\ c.contact_id = saved'.contact_id
          /\ \E a \in ActionsFor(saved'.user_id, saved'.contact_id) :
                /\ c.action_recording_id = a.id
                /\ \A b \in ActionsFor(saved'.user_id, saved'.contact_id) :
                      b.created_at <= a.created_at

MustFail ==
    \/ saved'.audio_type \notin {"action", "context"}
    \/ /\ saved'.audio_type = "context"
       /\ \/ saved'.contact_id = ContactNone
          \/ ActionsFor(saved'.user_id, saved'.contact_id) = {}

C29_ContextLinkedToLatestAction ==
    /\ [][context_recordings' # context_recordings => ContextInserted]_vars
    /\ [][(SaveStep /\ MustFail) =>
             /\ saved'.raised
             /\ saved'.returned = <<>>
             /\ action_recordings' = action_recordings
             /\ context_recordings' = context_recordings]_vars
    /\ [](\A c \in context_recordings :
             \E a \in action_recordings :
                /\ a.id = c.action_recording_id
                /\ a.user_id = c.user_id
                /\ a.contact_id = c.contact_id)

\* two action Recordings of the user and contact, the context Recording linked to
\* the later one
C29_Witness ==
    /\ saved.n = 3
    /\ saved.audio_type = "context"
    /\ ~saved.raised
    /\ Cardinality({a \in action_recordings :
                       a.user_id = saved.user_id /\ a.contact_id = saved.contact_id}) = 2
    /\ \E c \in context_recordings : c.id = 3 /\ c.action_recording_id = 2

(***************************************************************************)
(* C30  Token types are not interchangeable: get_current_user              *)
(* authenticates a request only when the bearer token was issued as an     *)
(* access token, and rejects a refresh token presented as a bearer         *)
(* credential, just as refresh_access_token rejects every token whose      *)
(* type is not 'refresh'.                                                  *)
(***************************************************************************)
Authenticated(op) == auth.call.op = op /\ auth.call.status = 200

C30_TokenTypesNotInterchangeable ==
    /\ Authenticated("get_current_user") => auth.call.token[1].type = "access"
    /\ Authenticated("refresh_access_token") => auth.call.token[1].type = "refresh"

====
